---- MODULE Spec2Model ----
(***************************************************************************)
(* Model of scripts/util.py: the nested namespace (NSDict), the Config     *)
(* entity (new_config, load_config, save_config, the derived fields) and   *)
(* the YAML Dumper.                                                        *)
(*                                                                         *)
(* A Python value is a tree: a scalar leaf, or a container (dict, NSDict,   *)
(* Config, list) holding its items.  Every container carries its identity  *)
(* (id): the construction that made it and its place in what that          *)
(* construction built; the constructions of a run are numbered: 1 the      *)
(* caller's mapping, 2 the Config of new_config, 3 its partition map, 4    *)
(* the view save_config builds (gone on return), 5 the document parsed by  *)
(* load_config, 6 the Config it returns.  A variable holds the unfolding   *)
(* of the object graph                                                     *)
(* below it, and a write through a reference changes the container of that *)
(* identity under every live root, so a copy and an alias are different.   *)
(*                                                                         *)
(* A Python string is a sequence of pieces.  "-" is always a piece of its  *)
(* own, a decimal digit is a piece, every other piece is a dash-free word. *)
(* Concatenation is \o; every string of the model is either an input, a    *)
(* literal of the source, or built from those by the source's own          *)
(* concatenations, so equal strings have equal piece sequences.            *)
(***************************************************************************)
EXTENDS Integers, Sequences, FiniteSets, TLC

VARIABLES
    props,      \* the caller's properties mapping
    cfg,        \* the Config returned by new_config, NoObject if none
    loaded,     \* the Config returned by load_config, NoObject if none
    file,       \* the document at the config path, NoFile if never written
    op,         \* the last operation that ran
    ret,        \* its outcome: the exception raised ("" if none) and the value
    target,     \* the container the last field read was applied to
    tagCalls,   \* number of get_metadata('tags') calls so far
    hostCalls,  \* number of socket.gethostname() calls so far
    lookup,     \* what the last derived-field read did outside the process
    snap        \* the Config as it was when save_config was last called

vars == <<props, cfg, loaded, file, op, ret, target,
          tagCalls, hostCalls, lookup, snap>>

--------------------------------------------------------------------------
(* Strings *)

W(x) == <<x>>

\* '-'.join(segments)
RECURSIVE Join(_)
Join(segs) ==
    IF segs = <<>> THEN <<>>
    ELSE IF Len(segs) = 1 THEN segs[1]
    ELSE segs[1] \o <<"-">> \o Join(Tail(segs))

\* s.split('-')
RECURSIVE Split(_)
Split(s) ==
    IF \A i \in 1..Len(s) : s[i] # "-" THEN <<s>>
    ELSE LET i == CHOOSE j \in 1..Len(s) :
                      s[j] = "-" /\ \A k \in 1..(j-1) : s[k] # "-"
         IN <<SubSeq(s, 1, i-1)>> \o Split(SubSeq(s, i+1, Len(s)))

\* str(n) for a natural number
RECURSIVE ToStr(_)
ToStr(n) ==
    IF n < 10 THEN W(<<"0","1","2","3","4","5","6","7","8","9">>[n+1])
    ELSE ToStr(n \div 10) \o ToStr(n % 10)

-----------------------------------------------------------------------------------------------------------------------------------------------
(* Values *)

NoId == [g |-> 0, p |-> <<>>]

Leaf(t, s) == [t |-> t, s |-> s, cls |-> "", id |-> NoId, keys |-> <<>>, vals |-> <<>>]
None     == Leaf("none", <<>>)
StrV(s)  == Leaf("str", s)
IntV(s)  == Leaf("int", s)
PathV(s) == Leaf("path", s)
Map(c, id, ks, vs) ==
    [t |-> "map", s |-> <<>>, cls |-> c, id |-> id, keys |-> ks, vals |-> vs]
List(id, vs) ==
    [t |-> "list", s |-> <<>>, cls |-> "list", id |-> id, keys |-> <<>>, vals |-> vs]

NoObject == Leaf("noobject", <<>>)
Absent   == Leaf("absent", <<>>)
NoFile   == Leaf("nofile", <<>>)

IsMap(v)       == v.t = "map"      \* isinstance(v, dict)
IsList(v)      == v.t = "list"     \* isinstance(v, list)
IsContainer(v) == v.t \in {"map", "list"}

HasKey(obj, k)  == \E i \in 1..Len(obj.keys) : obj.keys[i] = k
KeyIdx(obj, k)  == CHOOSE i \in 1..Len(obj.keys) : obj.keys[i] = k
GetItem(obj, k) == obj.vals[KeyIdx(obj, k)]
SetItem(obj, k, v) ==
    IF HasKey(obj, k) THEN [obj EXCEPT !.vals[KeyIdx(obj, k)] = v]
    ELSE [obj EXCEPT !.keys = Append(@, k), !.vals = Append(@, v)]
PopItem(obj, k) ==
    IF HasKey(obj, k)
    THEN LET i == KeyIdx(obj, k)
             keep == [j \in 1..(Len(obj.keys) - 1) |-> IF j < i THEN j ELSE j + 1]
         IN [obj EXCEPT !.keys = [j \in 1..Len(keep) |-> obj.keys[keep[j]]],
                        !.vals = [j \in 1..Len(keep) |-> obj.vals[keep[j]]]]
    ELSE obj

\* bool(value)
Truthy(v) ==
    CASE v.t = "none" -> FALSE
      [] v.t = "str"  -> v.s # <<>>
      [] v.t = "int"  -> v.s # W("0")
      [] v.t = "path" -> TRUE
      [] IsContainer(v) -> Len(v.vals) > 0

\* f'{value}'
Format(v) == IF v.t = "none" THEN W("None") ELSE v.s

\* The containers of a value, itself included.
RECURSIVE Nodes(_)
Nodes(v) ==
    IF IsContainer(v)
    THEN {v} \cup UNION {Nodes(v.vals[i]) : i \in 1..Len(v.vals)}
    ELSE {}

\* The container of identity id below root.
Find(root, id) == CHOOSE n \in Nodes(root) : n.id = id

\* root after the container of identity id became new.
RECURSIVE Replace(_, _, _)
Replace(root, id, new) ==
    IF ~IsContainer(root) THEN root
    ELSE IF root.id = id THEN new
    ELSE [root EXCEPT !.vals = [i \in 1..Len(root.vals) |-> Replace(root.vals[i], id, new)]]

\* A write through a reference, seen from every live root of store st.
Write(st, id, new) == [r \in DOMAIN st |-> Replace(st[r], id, new)]

\* A value with its containers' identities and classes forgotten: what ==
\* compares between mappings, and the shape of a parsed document.
RECURSIVE Plain(_)
Plain(v) ==
    IF IsContainer(v)
    THEN [v EXCEPT !.id = NoId,
                   !.cls = IF v.t = "map" THEN "dict" ELSE "list",
                   !.vals = [i \in 1..Len(v.vals) |-> Plain(v.vals[i])]]
    ELSE v

\* A plain value built by construction g: every container gets its identity.
RECURSIVE Label(_, _)
Label(v, id) ==
    IF IsContainer(v)
    THEN [v EXCEPT !.id = id,
                   !.vals = [i \in 1..Len(v.vals) |->
                                Label(v.vals[i], [id EXCEPT !.p = Append(@, i)])]]
    ELSE v

--------------------------------------------------------------------------
(* NSDict *)

\* A slip: from_nested hands the value back instead of building a new one.
from_nested_shared(cls, v, id) == v

\* from_nested, for an enclosing namespace of class cls (type(self)): a
\* mapping becomes a new cls, a list a new list, anything else is itself.
\* id is the identity the new container gets.
RECURSIVE from_nested(_, _, _)
from_nested(cls, v, id) ==
    IF IsMap(v)
    THEN Map(cls, id, v.keys,
             [i \in 1..Len(v.vals) |->
                from_nested(cls, v.vals[i], [id EXCEPT !.p = Append(@, i)])])
    ELSE IF IsList(v)
    THEN List(id, [i \in 1..Len(v.vals) |->
                      from_nested(cls, v.vals[i], [id EXCEPT !.p = Append(@, i)])])
    ELSE v

\* cls(items), as construction g: the new namespace holds the items' keys in
\* order, each value converted by from_nested.
NSDict__init__(cls, keys, vals, g) ==
    Map(cls, [g |-> g, p |-> <<>>], keys,
        [i \in 1..Len(vals) |-> from_nested(cls, vals[i], [g |-> g, p |-> <<i>>])])

--------------------------------------------------------------------------
(* Config *)

TYPES == {W("compute"), W("login"), W("controller")}

SAVED_PROPS ==
    << W("project"), W("zone"), W("cluster_name"), W("external_compute_ips"),
       W("shared_vpc_host_project"), W("compute_node_prefix"),
       W("compute_node_service_account"), W("compute_node_scopes"),
       W("slurm_cmd_path"), W("log_dir"), W("google_app_cred_path"),
       W("update_node_addrs"), W("network_storage"),
       W("login_network_storage"), W("instance_types") >>

PROPERTIES ==
    SAVED_PROPS \o
    << W("munge_key"), W("jwt_key"), W("external_compute_ips"),
       W("controller_secondary_disk"), W("suspend_time"),
       W("login_node_count"), W("cloudsql"), W("partitions") >>

\* The keys of a dict display built over ks: first occurrences, in order.
RECURSIVE DictKeys(_)
DictKeys(ks) ==
    IF Len(ks) = 0 THEN <<>>
    ELSE LET front == DictKeys(SubSeq(ks, 1, Len(ks) - 1))
             k == ks[Len(ks)]
         IN IF \E i \in 1..Len(front) : front[i] = k THEN front
            ELSE Append(front, k)

\* properties.setdefault(k, None) for every k of ks, on the caller's mapping
RECURSIVE SetDefaults(_, _)
SetDefaults(obj, ks) ==
    IF Len(ks) = 0 THEN obj
    ELSE SetDefaults(IF HasKey(obj, ks[1]) THEN obj
                     ELSE SetItem(obj, ks[1], None), Tail(ks))

\* Whether instances of the class answer a failed attribute lookup through
\* __getattr__ (Config defines it, NSDict and dict do not).
NoGetattr(cls) == FALSE
HasGetattr(cls) == cls = "Config"

Ok(v)      == [exc |-> "", v |-> v]
Raise(exc) == [exc |-> exc, v |-> None]

\* obj.name for a name that is no attribute of the class: the instance's
\* own storage (self.__dict__ is self), then __getattr__.
GetAttr(obj, name) ==
    IF HasKey(obj, name) THEN Ok(GetItem(obj, name))
    ELSE IF HasGetattr(obj.cls) THEN Ok(None)
    ELSE Raise("AttributeError")

\* obj[name]
GetKey(obj, name) ==
    IF HasKey(obj, name) THEN Ok(GetItem(obj, name))
    ELSE Raise("KeyError")

Controller == W("$controller")

\* The test of the substitution loop: server_ip == '$controller'
IsAnyString(v) == v.t = "str"
IsSentinel(v)  == v = StrV(Controller)

\* The loop of new_config over the entries it collected (ids, in order):
\* server_ip of each entry holding the sentinel is rewritten in place.
\* [st |-> the roots after, exc]
RECURSIVE Substitute(_, _, _)
Substitute(st, ids, cname) ==
    IF Len(ids) = 0 THEN [st |-> st, exc |-> ""]
    ELSE LET e  == Find(st.cfg, ids[1])
             ip == GetAttr(e, W("server_ip"))
         IN IF ip.exc # "" THEN [st |-> st, exc |-> ip.exc]
            ELSE IF IsSentinel(ip.v)
            THEN IF cname.t # "str" THEN [st |-> st, exc |-> "TypeError"]
                 ELSE Substitute(
                        Write(st, e.id, SetItem(e, W("server_ip"),
                                    StrV(cname.s \o <<"-", "controller">>))),
                        Tail(ids), cname)
            ELSE Substitute(st, Tail(ids), cname)

Ids(vs) == [i \in 1..Len(vs) |-> vs[i].id]

\* chain(*(p.network_storage for p in parts)): [exc, ids]
RECURSIVE PartEntries(_)
PartEntries(parts) ==
    IF Len(parts) = 0 THEN [exc |-> "", ids |-> <<>>]
    ELSE LET ns   == GetAttr(parts[1], W("network_storage"))
             rest == PartEntries(Tail(parts))
         IN IF ns.exc # "" THEN [exc |-> ns.exc, ids |-> <<>>]
            ELSE IF ~IsList(ns.v) THEN [exc |-> "TypeError", ids |-> <<>>]
            ELSE IF rest.exc # "" THEN rest
            ELSE [exc |-> "", ids |-> Ids(ns.v.vals) \o rest.ids]

\* The entries the substitution loop visits: [exc, ids]
NetstoreEntries(c) ==
    LET ns    == GetItem(c, W("network_storage"))
        lns   == GetItem(c, W("login_network_storage"))
        parts == GetItem(c, W("partitions"))
        pe    == PartEntries(IF Truthy(parts) THEN parts.vals ELSE <<>>)
    IN IF ~IsList(ns) THEN [exc |-> "TypeError", ids |-> <<>>]
       ELSE IF pe.exc # "" THEN pe
       ELSE [exc |-> "",
             ids |-> Ids(ns.vals)
                     \o (IF Truthy(lns) THEN Ids(lns.vals) ELSE <<>>)
                     \o pe.ids]

\* The partition map: cfg['instance_types'] rebuilt from cfg.partitions, as
\* construction g.
PartitionMap(c, g) ==
    LET parts == GetItem(c, W("partitions"))
        cname == GetItem(c, W("cluster_name"))
    IN IF Truthy(parts)
       THEN SetItem(c, W("instance_types"),
                NSDict__init__("NSDict",
                    [i \in 1..Len(parts.vals) |->
                        Format(cname) \o <<"-", "compute", "-">> \o ToStr(i - 1)],
                    parts.vals, g))
       ELSE c

\* Config.new_config(properties), as constructions g and g + 1:
\* [props |-> the caller's mapping after, cfg |-> the Config, exc]
new_config(pr, g) ==
    LET p1 == SetDefaults(pr, PROPERTIES)
        ks == DictKeys(PROPERTIES)
        c0 == NSDict__init__("Config", ks, [i \in 1..Len(ks) |-> GetItem(p1, ks[i])], g)
        c1 == PartitionMap(c0, g + 1)
        ne == NetstoreEntries(c1)
        sb == Substitute([props |-> p1, cfg |-> c1], ne.ids,
                         GetItem(c1, W("cluster_name")))
    IN IF ne.exc # "" THEN [props |-> p1, cfg |-> NoObject, exc |-> ne.exc]
       ELSE IF sb.exc # "" THEN [props |-> sb.st.props, cfg |-> NoObject, exc |-> sb.exc]
       ELSE [props |-> sb.st.props, cfg |-> sb.st.cfg, exc |-> ""]

--------------------------------------------------------------------------
(* Persistence: save_config, the Dumper, load_config *)

\* yaml.dump(value, Dumper=Dumper): a namespace is written as a plain
\* mapping of its items (represent_nsdict), a Path as the string str(path)
\* (represent_path); the document keeps no Python class or identity.
RECURSIVE Dump(_)
Dump(v) ==
    IF IsContainer(v)
    THEN [v EXCEPT !.id = NoId,
                   !.cls = IF v.t = "map" THEN "dict" ELSE "list",
                   !.vals = [i \in 1..Len(v.vals) |-> Dump(v.vals[i])]]
    ELSE IF v.t = "path" THEN StrV(v.s)
    ELSE v

StrippedFields == << W("max_node_count"), W("name"), W("static_node_count") >>

\* instance_type.pop(f, 0) for the three fields, on every entry (ids) of
\* save_dict.instance_types
RECURSIVE StripEntries(_, _)
StripEntries(st, ids) ==
    IF Len(ids) = 0 THEN st
    ELSE StripEntries(
            Write(st, ids[1],
                  PopItem(PopItem(PopItem(Find(st.save_dict, ids[1]),
                      StrippedFields[1]), StrippedFields[2]), StrippedFields[3])),
            Tail(ids))

\* The restricted view: Config([(k, self[k]) for k in self.SAVED_PROPS])
SavedView(c, g) ==
    NSDict__init__("Config", SAVED_PROPS,
                   [i \in 1..Len(SAVED_PROPS) |-> GetItem(c, SAVED_PROPS[i])], g)

\* Config.save_config(path) on st.cfg, as construction g (save_dict is
\* local and gone on return): [st |-> the roots after, exc, doc |-> written]
save_config(st, g) ==
    IF \E i \in 1..Len(SAVED_PROPS) : ~HasKey(st.cfg, SAVED_PROPS[i])
    THEN [st |-> st, exc |-> "KeyError", doc |-> NoFile]
    ELSE LET sd == SavedView(st.cfg, g)
             it == GetItem(sd, W("instance_types"))
         IN IF ~IsMap(it)
            THEN [st |-> st, exc |-> "AttributeError", doc |-> NoFile]
            ELSE IF \E i \in 1..Len(it.vals) : ~IsMap(it.vals[i])
            THEN [st |-> st, exc |-> "AttributeError", doc |-> NoFile]
            ELSE LET s2 == StripEntries(
                             [props |-> st.props, cfg |-> st.cfg,
                              loaded |-> st.loaded, save_dict |-> sd],
                             Ids(it.vals))
                 IN [st  |-> [props |-> s2.props, cfg |-> s2.cfg, loaded |-> s2.loaded],
                     exc |-> "",
                     doc |-> Dump(s2.save_dict)]

\* Config.load_config(path) for a file holding doc: yaml.safe_load builds
\* plain dicts and lists (construction g), cls(config) converts them
\* (construction g + 1).
load_config(doc, g) ==
    LET raw == Label(doc, [g |-> g, p |-> <<>>])
    IN NSDict__init__("Config", raw.keys, raw.vals, g + 1)

--------------------------------------------------------------------------
(* Derived fields *)

\* How the class defines a name: region is a property (a data descriptor,
\* computed on every read, ahead of the instance's storage); instance_type
\* and hostname are cached_property (consulted only when the instance's
\* storage lacks the name, and then stored there by setattr).
DescriptorAllCached(name) ==
    IF name \in {W("region"), W("instance_type"), W("hostname")}
    THEN "cached_property" ELSE "none"
Descriptor(name) ==
    CASE name = W("region") -> "property"
      [] name \in {W("instance_type"), W("hostname")} -> "cached_property"
      [] OTHER -> "none"

\* Config.region's getter on the instance c: [exc, v]
region(c) ==
    LET zone == GetAttr(c, W("zone"))
    IN IF zone.exc # "" THEN zone
       ELSE IF ~Truthy(zone.v) THEN Ok(zone.v)
       ELSE LET segs == Split(zone.v.s)
            IN Ok(StrV(Join(SubSeq(segs, 1, Len(segs) - 1))))

\* What yaml.safe_load raises when handed None instead of a document.
SafeLoadNone == "AttributeError"

\* Config.instance_type's factory for one answer of get_metadata('tags'):
\* the set of outcomes, each [exc, v].  An answer is [ok |-> FALSE, ...]
\* (a transport failure: get_metadata logs it and returns None) or
\* [ok |-> TRUE, tags |-> the tags].  Which match comes first is up to the
\* set's iteration order.
instance_type(answer) ==
    IF ~answer.ok THEN {Raise(SafeLoadNone)}
    ELSE IF answer.tags \cap TYPES = {} THEN {Ok(None)}
    ELSE {Ok(StrV(r)) : r \in answer.tags \cap TYPES}

\* Config.hostname's factory for one answer of socket.gethostname()
hostname(answer) == {Ok(StrV(answer))}

\* The end of an attribute read whose descriptor produced out: an
\* AttributeError raised inside __get__ is answered by __getattr__ where the
\* class has one; any other outcome stands.
FinishRead(cls, out) ==
    IF out.exc = "AttributeError" /\ HasGetattr(cls) THEN Ok(None) ELSE out

--------------------------------------------------------------------------
(* Inputs *)

MaxParts   == 2     \* partitions supplied to new_config
MaxZoneLen == 3     \* pieces of a zone string assigned by the owner
MaxLookups == 2     \* external lookups of one kind in a run

PMap(ks, vs) == Map("dict", NoId, ks, vs)
PList(vs)    == List(NoId, vs)

NetKeys   == << W("server_ip"), W("remote_mount") >>
EntryCtl  == PMap(NetKeys, << StrV(Controller), StrV(W("/home")) >>)
EntryNfs  == PMap(NetKeys, << StrV(W("nfs")), StrV(W("/apps")) >>)
EntryBare == PMap(<< W("remote_mount") >>, << StrV(W("/opt")) >>)

PartA == PMap(<< W("name"), W("machine_type"), W("max_node_count"), W("network_storage") >>,
              << StrV(W("debug")), StrV(W("n1")), IntV(W("8")), PList(<< EntryCtl >>) >>)
PartB == PMap(<< W("name"), W("static_node_count"), W("network_storage") >>,
              << StrV(W("batch")), IntV(W("2")), PList(<< EntryNfs, EntryBare >>) >>)

Supplied == PMap(<< W("custom") >>,
                 << PMap(<< W("name"), W("machine_type"), W("max_node_count") >>,
                         << StrV(W("custom")), StrV(W("n2")), IntV(W("4")) >>) >>)

ClusterNames  == {Absent, StrV(W("c"))}
NetLists      == {Absent, PList(<<>>), PList(<< EntryCtl, EntryNfs >>)}
LoginLists    == {Absent, PList(<< EntryBare, EntryCtl >>)}
PartLists     == {Absent} \cup
                 {PList([i \in 1..n |-> IF i % 2 = 1 THEN PartA ELSE PartB]) :
                    n \in 0..MaxParts}
InstanceTypes == {Absent, Supplied}
InitZones     == {Absent, StrV(<<"us", "-", "central1", "-", "a">>)}

\* The caller's mapping: the supplied names only, plus one undeclared name.
PropsTree(cn, zn, ns, lns, parts, its) ==
    LET all == << <<W("comment"), StrV(W("demo"))>>,
                  <<W("instance_types"), its>>,
                  <<W("cluster_name"), cn>>,
                  <<W("zone"), zn>>,
                  <<W("network_storage"), ns>>,
                  <<W("login_network_storage"), lns>>,
                  <<W("partitions"), parts>> >>
        kept == SelectSeq(all, LAMBDA p : p[2] # Absent)
    IN PMap([i \in 1..Len(kept) |-> kept[i][1]],
            [i \in 1..Len(kept) |-> kept[i][2]])

Zones == UNION {[1..n -> {"-", "a"}] : n \in 0..MaxZoneLen}

TagUniverse == {W("compute"), W("login"), W("controller"), W("http")}
MetadataAnswers ==
    {[ok |-> FALSE, tags |-> {}]} \cup {[ok |-> TRUE, tags |-> ts] : ts \in SUBSET TagUniverse}
HostNames == {W("vm1"), W("vm2")}

--------------------------------------------------------------------------
(* The state machine *)

\* The namespaces and raw mappings reachable from the live Configs.
Namespaces == {n \in Nodes(cfg) \cup Nodes(loaded) : IsMap(n)}

ReadNames == {W("munge_key"), W("nope")}

NoTarget == [cls |-> "", name |-> <<>>, style |-> "", found |-> FALSE]

InitWith(tree) ==
    /\ props = Label(tree, [g |-> 1, p |-> <<>>])
    /\ cfg = NoObject
    /\ loaded = NoObject
    /\ file = NoFile
    /\ op = "init"
    /\ ret = Ok(None)
    /\ target = NoTarget
    /\ tagCalls = 0
    /\ hostCalls = 0
    /\ lookup = "none"
    /\ snap = NoObject

Init ==
    \E cn \in ClusterNames, ns \in NetLists, lns \in LoginLists,
       parts \in PartLists, its \in InstanceTypes :
        InitWith(PropsTree(cn, Absent, ns, lns, parts, its))

InitDerived ==
    \E cn \in ClusterNames, zn \in InitZones :
        InitWith(PropsTree(cn, zn, PList(<<>>), Absent, Absent, Absent))

\* cfg = Config.new_config(properties)
NewConfig ==
    /\ op = "init"
    /\ LET r == new_config(props, 2)
       IN /\ props' = r.props
          /\ cfg' = r.cfg
          /\ ret' = [exc |-> r.exc, v |-> r.cfg]
    /\ op' = "new_config"
    /\ UNCHANGED <<loaded, file, target, tagCalls, hostCalls, lookup, snap>>

\* cfg.save_config(path)
SaveConfig ==
    /\ cfg # NoObject
    /\ LET r == save_config([props |-> props, cfg |-> cfg, loaded |-> loaded], 4)
       IN /\ props' = r.st.props
          /\ cfg' = r.st.cfg
          /\ loaded' = r.st.loaded
          /\ ret' = [exc |-> r.exc, v |-> None]
          /\ file' = IF r.exc = "" THEN r.doc ELSE file
    /\ snap' = cfg
    /\ op' = "save_config"
    /\ UNCHANGED <<target, tagCalls, hostCalls, lookup>>

\* loaded = Config.load_config(path), once the file is there
LoadConfig ==
    /\ file # NoFile
    /\ loaded = NoObject
    /\ loaded' = load_config(file, 5)
    /\ ret' = Ok(loaded')
    /\ op' = "load_config"
    /\ UNCHANGED <<props, cfg, file, target, tagCalls, hostCalls, lookup, snap>>

\* What the owner assigns to a field of its Config: a container of the
\* mapping it was given, or a Path.
OwnerAssignments ==
    {<<W("instance_types"), GetItem(props, W("instance_types"))>>,
     <<W("slurm_cmd_path"), PathV(W("/slurm"))>>}

\* cfg.k = v, an ordinary assignment (kept in the instance's storage)
AssignField ==
    /\ cfg # NoObject
    /\ \E kv \in OwnerAssignments :
        /\ kv[2] # None
        /\ GetItem(cfg, kv[1]) # kv[2]
        /\ cfg' = SetItem(cfg, kv[1], kv[2])
    /\ op' = "assign"
    /\ ret' = Ok(None)
    /\ UNCHANGED <<props, loaded, file, target, tagCalls, hostCalls, lookup, snap>>

\* ns.name and ns[name] on the reachable namespaces: the outcome of each
\* read and what it was applied to.
ReadOutcomes ==
    {[ret    |-> IF style = "attr" THEN GetAttr(n, name) ELSE GetKey(n, name),
      target |-> [cls |-> n.cls, name |-> name, style |-> style,
                  found |-> HasKey(n, name)]] :
        n \in Namespaces, name \in ReadNames, style \in {"attr", "key"}}

\* A read of a field of a reachable namespace
ReadField ==
    /\ \E o \in ReadOutcomes :
        /\ ret' = o.ret
        /\ target' = o.target
    /\ op' = "read"
    /\ UNCHANGED <<props, cfg, loaded, file, tagCalls, hostCalls, lookup, snap>>

\* The value a read of a derived field leaves in the instance's storage:
\* cached_property.__get__ stores what the factory returned under the
\* field's name; a property stores nothing.
AfterRead(c, name, out) ==
    IF out.exc = "" /\ Descriptor(name) = "cached_property"
    THEN SetItem(c, name, out.v) ELSE c

\* Whether a read of the name is answered from the instance's storage.
Cached(c, name) == Descriptor(name) = "cached_property" /\ HasKey(c, name)

\* cfg.instance_type
ReadInstanceType ==
    /\ cfg # NoObject
    /\ IF Cached(cfg, W("instance_type"))
       THEN /\ ret' = Ok(GetItem(cfg, W("instance_type")))
            /\ lookup' = "cached"
            /\ UNCHANGED <<cfg, tagCalls>>
       ELSE /\ tagCalls < MaxLookups
            /\ \E answer \in MetadataAnswers :
                \E out \in instance_type(answer) :
                    /\ ret' = FinishRead(cfg.cls, out)
                    /\ cfg' = AfterRead(cfg, W("instance_type"), out)
                    /\ lookup' = IF ~answer.ok THEN "failed"
                                 ELSE IF answer.tags \cap TYPES = {} THEN "nomatch"
                                 ELSE "match"
            /\ tagCalls' = tagCalls + 1
    /\ op' = "read_instance_type"
    /\ UNCHANGED <<props, loaded, file, target, hostCalls, snap>>

\* cfg.hostname
ReadHostname ==
    /\ cfg # NoObject
    /\ IF Cached(cfg, W("hostname"))
       THEN /\ ret' = Ok(GetItem(cfg, W("hostname")))
            /\ lookup' = "cached"
            /\ UNCHANGED <<cfg, hostCalls>>
       ELSE /\ hostCalls < MaxLookups
            /\ \E answer \in HostNames :
                \E out \in hostname(answer) :
                    /\ ret' = FinishRead(cfg.cls, out)
                    /\ cfg' = AfterRead(cfg, W("hostname"), out)
            /\ lookup' = "host"
            /\ hostCalls' = hostCalls + 1
    /\ op' = "read_hostname"
    /\ UNCHANGED <<props, loaded, file, target, tagCalls, snap>>

\* cfg.region
ReadRegion ==
    /\ cfg # NoObject
    /\ IF Cached(cfg, W("region"))
       THEN /\ ret' = Ok(GetItem(cfg, W("region")))
            /\ UNCHANGED cfg
       ELSE LET out == region(cfg)
            IN /\ ret' = FinishRead(cfg.cls, out)
               /\ cfg' = AfterRead(cfg, W("region"), out)
    /\ lookup' = "none"
    /\ op' = "read_region"
    /\ UNCHANGED <<props, loaded, file, target, tagCalls, hostCalls, snap>>

\* cfg.zone = z
AssignZone ==
    /\ cfg # NoObject
    /\ \E z \in {None} \cup {StrV(zs) : zs \in Zones} :
        cfg' = SetItem(cfg, W("zone"), z)
    /\ op' = "assign_zone"
    /\ ret' = Ok(None)
    /\ UNCHANGED <<props, loaded, file, target, tagCalls, hostCalls, lookup, snap>>

Next == NewConfig \/ SaveConfig \/ LoadConfig \/ AssignField \/ ReadField

Spec == Init /\ [][Next]_vars

NextDerived == NewConfig \/ ReadInstanceType \/ ReadHostname \/ ReadRegion \/ AssignZone

SpecDerived == InitDerived /\ [][NextDerived]_vars

--------------------------------------------------------------------------
(* Properties *)

Returned == op = "new_config" /\ ret.exc = ""

\* C1: new_config never fails on missing keys: for every subset of the
\* PROPERTIES names supplied (the empty one included) it returns a Config in
\* which every PROPERTIES name is a key, holding None when not supplied.
C1_ConstructionNeverFails ==
    op = "new_config" =>
        /\ ret.exc = ""
        /\ \A i \in 1..Len(PROPERTIES) :
            /\ HasKey(cfg, PROPERTIES[i])
            /\ (GetItem(props, PROPERTIES[i]) = None /\ PROPERTIES[i] # W("instance_types"))
                    => GetItem(cfg, PROPERTIES[i]) = None

\* What C2 expects of an entry, a network-storage list and a partition.
ExpectEntry(e, cname) ==
    IF HasKey(e, W("server_ip")) /\ GetItem(e, W("server_ip")) = StrV(Controller)
    THEN SetItem(e, W("server_ip"), StrV(cname \o <<"-", "controller">>))
    ELSE e
ExpectList(l, cname) ==
    IF IsList(l) THEN [l EXCEPT !.vals = [i \in 1..Len(l.vals) |-> ExpectEntry(l.vals[i], cname)]]
    ELSE l
ExpectParts(ps, cname) ==
    IF IsList(ps)
    THEN [ps EXCEPT !.vals = [i \in 1..Len(ps.vals) |->
            SetItem(ps.vals[i], W("network_storage"),
                    ExpectList(GetItem(ps.vals[i], W("network_storage")), cname))]]
    ELSE ps

\* C2: in the Config new_config returns, every entry of network_storage, of
\* login_network_storage and of each partition's network_storage that was
\* supplied with server_ip '$controller' has server_ip cluster_name +
\* '-controller'; every other entry, and every other field, is as supplied.
C2_ControllerSubstitution ==
    Returned =>
        LET cname == GetItem(cfg, W("cluster_name")).s
        IN /\ Plain(GetItem(cfg, W("network_storage")))
                = ExpectList(Plain(GetItem(props, W("network_storage"))), cname)
           /\ Plain(GetItem(cfg, W("login_network_storage")))
                = ExpectList(Plain(GetItem(props, W("login_network_storage"))), cname)
           /\ Plain(GetItem(cfg, W("partitions")))
                = ExpectParts(Plain(GetItem(props, W("partitions"))), cname)

ServerIps(l) == {GetItem(l.vals[i], W("server_ip")) :
                    i \in {j \in 1..Len(l.vals) : HasKey(l.vals[j], W("server_ip"))}}

\* C2's case: a returned Config whose three sources each held the sentinel,
\* now rewritten, next to an entry with another server_ip.
C2_Witness ==
    /\ Returned
    /\ ServerIps(GetItem(cfg, W("network_storage")))
            = {StrV(<<"c", "-", "controller">>), StrV(W("nfs"))}
    /\ StrV(<<"c", "-", "controller">>) \in ServerIps(GetItem(cfg, W("login_network_storage")))
    /\ IsList(GetItem(cfg, W("partitions")))
    /\ Len(GetItem(cfg, W("partitions")).vals) = 2
    /\ \A i \in 1..2 :
        ServerIps(GetItem(GetItem(cfg, W("partitions")).vals[i], W("network_storage")))
            \subseteq {StrV(<<"c", "-", "controller">>), StrV(W("nfs"))}

\* C3: with a non-empty partitions sequence, instance_types of the returned
\* Config has exactly the keys cluster_name-compute-i in order, whatever was
\* supplied, and the value under each holds the same field values as
\* partition i of the returned Config, nested server_ip included; with
\* partitions absent or empty the supplied instance_types is kept.
C3_PartitionMap ==
    Returned =>
        LET parts == GetItem(cfg, W("partitions"))
            its   == GetItem(cfg, W("instance_types"))
            cname == Format(GetItem(cfg, W("cluster_name")))
        IN IF Truthy(parts)
           THEN /\ IsMap(its)
                /\ its.keys = [i \in 1..Len(parts.vals) |->
                                cname \o <<"-", "compute", "-">> \o ToStr(i - 1)]
                /\ \A i \in 1..Len(parts.vals) :
                        Plain(its.vals[i]) = Plain(parts.vals[i])
           ELSE Plain(its) = Plain(GetItem(props, W("instance_types")))

\* What C4 expects of instance_types after a reload: the three fields gone
\* from every entry.
ExpectStripped(its) ==
    [its EXCEPT !.vals = [i \in 1..Len(its.vals) |->
        PopItem(PopItem(PopItem(its.vals[i], W("max_node_count")), W("name")),
                W("static_node_count"))]]

\* C4: for every Config, save_config then load_config yields a Config whose
\* keys are exactly SAVED_PROPS in order and whose value under each equals
\* the saved Config's, but for the three fields stripped from the entries of
\* instance_types.
C4_SaveLoadRoundTrip ==
    /\ op = "save_config" => ret.exc = ""
    /\ op = "load_config" =>
        /\ loaded.keys = SAVED_PROPS
        /\ \A i \in 1..Len(SAVED_PROPS) :
            LET k == SAVED_PROPS[i]
            IN Plain(GetItem(loaded, k)) =
                 IF k = W("instance_types") THEN ExpectStripped(Plain(GetItem(snap, k)))
                 ELSE Plain(GetItem(snap, k))

\* C5: over any sequence of reads of instance_type (of hostname) on one
\* Config, the external lookup is invoked at most once.
C5_LookupAtMostOnce == tagCalls <= 1 /\ hostCalls <= 1

\* C6: when the tag lookup fails at transport level, the read of
\* instance_type does not raise and gives None, as it does when the lookup
\* succeeds and no tag is a role.
C6_LookupFailureIsAbsent ==
    (op = "read_instance_type" /\ lookup \in {"failed", "nomatch"}) => ret = Ok(None)

\* C6's case: a read of instance_type whose lookup failed.
C6_Witness == op = "read_instance_type" /\ lookup = "failed" /\ tagCalls = 1

\* C7: a read of a name the storage does not hold gives None and never
\* raises, by attribute and by key, on every namespace reachable from a
\* Config built by new_config or load_config.
C7_SoftSchema == (op = "read" /\ ~target.found) => ret = Ok(None)

\* The zone string up to its last dash, empty when it has none.
UpToLastDash(z) ==
    IF \A i \in 1..Len(z) : z[i] # "-" THEN <<>>
    ELSE LET last == CHOOSE i \in 1..Len(z) :
                        z[i] = "-" /\ \A j \in (i+1)..Len(z) : z[j] # "-"
         IN SubSeq(z, 1, last - 1)

\* C8: every read of region gives None when zone is None and otherwise the
\* current zone without its last dash-separated segment, whatever zone was
\* before, and the read leaves every stored field of the Config as it was.
C8_RegionFollowsZone ==
    [][op' = "read_region" =>
        LET zone == GetItem(cfg, W("zone"))
        IN /\ cfg' = cfg
           /\ ret' = Ok(IF zone = None THEN None ELSE StrV(UpToLastDash(zone.s)))]_vars

\* C8's case: region read after the owner reassigned zone to a-a.
C8_Witness ==
    /\ op = "read_region"
    /\ GetItem(cfg, W("zone")) = StrV(<<"a", "-", "a">>)
    /\ ret = Ok(StrV(W("a")))

\* C9: in every reachable state no raw mapping is reachable from a Config,
\* after construction, derivation, save_config and any field assignment by
\* the owner; and a converted mapping keeps the source's keys, order and
\* scalar leaves.
C9_NoRawMapping ==
    /\ \A n \in Nodes(cfg) \cup Nodes(loaded) : n.cls # "dict"
    /\ op = "load_config" => Plain(loaded) = file

\* C10: save_config leaves the Config as it was: instance_types entries keep
\* max_node_count, name and static_node_count, and every other key and
\* nested value is the same as before the call.
C10_SaveLeavesConfig == op = "save_config" => cfg = snap

\* C10's case: a save that wrote a document without max_node_count while
\* the Config's own entry holds it.
C10_Witness ==
    /\ op = "save_config"
    /\ ret.exc = ""
    /\ \E i \in 1..Len(GetItem(cfg, W("instance_types")).vals) :
        /\ HasKey(GetItem(cfg, W("instance_types")).vals[i], W("max_node_count"))
        /\ ~HasKey(GetItem(file, W("instance_types")).vals[i], W("max_node_count"))

====
